---- MODULE Spec2Model ----
(***************************************************************************)
(* State-machine model of IT8951/spi.pyx: the SPI transport of the IT8951 *)
(* e-paper controller driver (class SPI over the bcm2835 library).         *)
(*                                                                         *)
(* Every call the class makes into bcm2835 (pin configuration, pin write,  *)
(* pin read, byte transfer, bulk transfer) is one step of the model and    *)
(* is appended to `trace`, the log of the current top-level call.  The     *)
(* device drives the ready line at any moment (DeviceReady, DeviceBusy).   *)
(***************************************************************************)
EXTENDS Integers, Sequences, FiniteSets, TLC

(* ------------------------------ bounds -------------------------------- *)
MaxCount == 2      \* largest count passed to read / read_data
MaxWords == 2      \* longest word list passed to write / write_data
MaxArgs == 2       \* most arguments passed to write_cmd
MaxPix == 2        \* longest pixel buffer passed to write_pixels
MaxLowPolls == 1   \* ready samples that read low, per top-level call

(* ------------------------ program constants --------------------------- *)
LOW == 0
HIGH == 1
DefaultHRDY == 24
DefaultCS == 8
DefaultRESET == 17
CmdPreamble == 24576       \* 0x6000, write_cmd
DataPreamble == 0          \* 0x0000, write_data and write_pixels
ReadPreamble == 4096       \* 0x1000, read_data
ResetHoldMs == 100         \* time.sleep(0.1) in reset

\* Python's None for an unassigned line: outside the GPIO numbers.
None == 0 - 1

GpioPins == {DefaultHRDY, DefaultCS, DefaultRESET}

(* ------------------------------ inputs -------------------------------- *)
\* 0x1234, 0xABCD: two words whose high and low bytes all differ.
GoodWords == {4660, 43981}
\* 0x10000 does not fit array type 'H'.
BadWords == {65536}
\* 0x12AB: a preamble with a non-zero low byte.
Preambles == {DataPreamble, ReadPreamble, CmdPreamble, 4779}
\* Bytes the device shifts out during a transfer.
RxBytes == {18, 239}
\* Command codes (0x0302).
Cmds == {770}

SeqsUpTo(S, n) == UNION {[1..m -> S] : m \in 0..n}

\* The word lists passed to write and write_data: lists of 16-bit words,
\* and lists holding a value array.array('H', ary) refuses.
WriteArys ==
    SeqsUpTo(GoodWords, MaxWords)
    \cup {<<b>> : b \in BadWords}
    \cup {<<g, b>> : g \in GoodWords, b \in BadWords}

(* ----------------------------- variables ------------------------------ *)
VARIABLES
    obj,        \* life cycle of the SPI object
    bcm,        \* the bcm2835 library: [inited, nInit, nClose, spi]
    HRDY, CS, RESET,   \* self.HRDY, self.CS, self.RESET
    fsel,       \* pin -> function selected by bcm2835_gpio_fsel
    pud,        \* pin -> pull selected by bcm2835_gpio_set_pud
    gpio,       \* pin -> level of the line
    pc,         \* position of the caller: "idle" or "<function>:<line>"
    top,        \* the method the caller invoked
    loc,        \* locals of the running methods
    trace,      \* bcm2835 calls made by the current top-level call
    result,     \* outcome of the last finished call
    lowpolls,   \* low samples of the ready line in the current call
    mock,       \* the peripheral as a loopback test double: [loopback, buf]
    other,      \* a second caller of the same object, while it is not running
    serialized  \* the callers take turns: a call starts when none is running

vars == <<obj, bcm, HRDY, CS, RESET, fsel, pud, gpio, pc, top, loc, trace,
          result, lowpolls, mock, other, serialized>>

hw == <<bcm, fsel, pud>>
rig == <<mock, other, serialized>>
selfpins == <<HRDY, CS, RESET>>

\* The arguments of a top-level call; fields a method does not take keep
\* these defaults.  pixbuf is a Python object: bytes or array.array('H').
NoTop == [name |-> "none", preamble |-> 0, count |-> 0, countkind |-> "int",
          ary |-> <<>>,
          cmd |-> 0, args |-> <<>>, pixbuf |-> [kind |-> "none", data |-> <<>>]]

\* Locals of read (preamble, i, rtn) and write (preamble, ary, i), and the
\* number k of arguments write_cmd has taken from args.
NoLoc == [preamble |-> 0, ary |-> <<>>, i |-> 0, rtn |-> <<>>, k |-> 0]

NoResult == [status |-> "none", value |-> <<>>]

\* A caller between calls, before its first one.
NoCaller == [pc |-> "idle", top |-> NoTop, loc |-> NoLoc, trace |-> <<>>,
             result |-> NoResult, lowpolls |-> 0]

\* Before SPI(...) is called; the levels of the lines are whatever the
\* board holds.  loopback: the peripheral is the echoing test double;
\* serial: callers take turns.
Start(loopback, serial) ==
    /\ obj = "none"
    /\ bcm = [inited |-> FALSE, nInit |-> 0, nClose |-> 0, spi |-> <<>>]
    /\ HRDY = None /\ CS = None /\ RESET = None
    /\ fsel = [p \in GpioPins |-> "unset"]
    /\ pud = [p \in GpioPins |-> "unset"]
    /\ gpio \in [GpioPins -> {LOW, HIGH}]
    /\ pc = "idle"
    /\ top = NoTop
    /\ loc = NoLoc
    /\ trace = <<>>
    /\ result = NoResult
    /\ lowpolls = 0
    /\ mock = [loopback |-> loopback, buf |-> <<>>]
    /\ other = NoCaller
    /\ serialized = serial

\* One caller, a peripheral that shifts out any byte.
Init == Start(FALSE, TRUE)

(* ------------------------- bcm2835 primitives ------------------------- *)
\* The SPI bus moves 8 bits per transfer: bcm2835_spi_transfer sends the low
\* eight bits of its argument.
Byte(v) == v % 256

\* Mutant of Hi: the low byte where the high byte is meant.
Hi_m(w) == w % 256

\* w >> 8
Hi(w) == w \div 256

\* Mutant of value_to_write: the polarity of chip-select inverted.
value_to_write_m(should_listen) == IF should_listen THEN HIGH ELSE LOW

\* _write_cs: LOW when the device should listen, HIGH otherwise.
value_to_write(should_listen) == IF should_listen THEN LOW ELSE HIGH

\* Mutant of InitTrace: the SPI bus is begun before the result of
\* bcm2835_init is looked at.
InitTrace_m(h, c, r, init_rtn) ==
    << <<"init", init_rtn>>, <<"spi_begin">> >>
    \o (IF init_rtn # 1 THEN <<>>
        ELSE <<  <<"spi_setBitOrder", "MSBFIRST">>,
                 <<"spi_setDataMode", "MODE0">>,
                 <<"spi_setClockDivider", "DIVIDER_32">> >>
          \o (IF c # None THEN << <<"gpio_fsel", c, "OUTP">> >> ELSE <<>>)
          \o (IF r # None THEN << <<"gpio_fsel", r, "OUTP">> >> ELSE <<>>)
          \o (IF h # None THEN << <<"gpio_fsel", h, "INPT">>,
                                  <<"gpio_set_pud", h, "PUD_DOWN">> >>
                          ELSE <<>>)
          \o (IF c # None THEN << <<"gpio_write", c, HIGH>> >> ELSE <<>>))

\* The calls SPI.__init__(h, c, r) makes into bcm2835, in source order,
\* when bcm2835_init returns init_rtn: nothing after a failed
\* bcm2835_init; otherwise the bus setup, the direction of each assigned
\* pin and, unless the assertion of _write_cs fails, chip-select written
\* high.
InitTrace(h, c, r, init_rtn) ==
    << <<"init", init_rtn>> >>
    \o (IF init_rtn # 1 THEN <<>>
        ELSE <<  <<"spi_begin">>, <<"spi_setBitOrder", "MSBFIRST">>,
                 <<"spi_setDataMode", "MODE0">>,
                 <<"spi_setClockDivider", "DIVIDER_32">> >>
          \o (IF c # None THEN << <<"gpio_fsel", c, "OUTP">> >> ELSE <<>>)
          \o (IF r # None THEN << <<"gpio_fsel", r, "OUTP">> >> ELSE <<>>)
          \o (IF h # None THEN << <<"gpio_fsel", h, "INPT">>,
                                  <<"gpio_set_pud", h, "PUD_DOWN">> >>
                          ELSE <<>>)
          \o (IF c # None
                THEN << <<"gpio_write", c, value_to_write(FALSE)>> >>
                ELSE <<>>))

\* What the pin-configuration and pin-write calls of a trace do to a map
\* from pins to settings: call f(pin, setting) sets m[pin].
RECURSIVE Apply(_, _, _)
Apply(m, f, t) ==
    IF t = <<>> THEN m
    ELSE LET e == Head(t)
         IN  Apply(IF e[1] = f THEN [m EXCEPT ![e[2]] = e[3]] ELSE m, f, Tail(t))

\* The SPI setup calls of a trace: begin, bit order, data mode, divider.
SpiSetup(t) ==
    SelectSeq(t, LAMBDA e : e[1] \in {"spi_begin", "spi_setBitOrder",
                                      "spi_setDataMode", "spi_setClockDivider"})

(* ------------------------------ __init__ ------------------------------ *)
\* SPI(HRDY=h, CS=c, RESET=r).  init_rtn is what bcm2835_init returns.
\* The last statement, self._write_cs(False), asserts self.CS is not None.
__init__(h, c, r, init_rtn) ==
    /\ obj = "none"
    /\ trace' = InitTrace(h, c, r, init_rtn)
    /\ fsel' = Apply(fsel, "gpio_fsel", trace')
    /\ pud' = Apply(pud, "gpio_set_pud", trace')
    /\ gpio' = Apply(gpio, "gpio_write", trace')
    /\ IF init_rtn # 1
         THEN /\ obj' = "failed"
              /\ result' = [status |-> "RuntimeError", value |-> <<>>]
              /\ bcm' = [bcm EXCEPT !.spi = SpiSetup(trace')]
              /\ UNCHANGED <<HRDY, CS, RESET>>
         ELSE /\ HRDY' = h /\ CS' = c /\ RESET' = r
              /\ bcm' = [bcm EXCEPT !.inited = TRUE, !.nInit = @ + 1,
                                    !.spi = SpiSetup(trace')]
              /\ IF c = None
                   THEN /\ obj' = "failed"
                        /\ result' = [status |-> "AssertionError",
                                      value |-> <<>>]
                   ELSE /\ obj' = "live"
                        /\ result' = [status |-> "ok", value |-> <<>>]
    /\ top' = [NoTop EXCEPT !.name = "__init__"]
    /\ UNCHANGED <<pc, loc, lowpolls, rig>>

Open ==
    \E h \in {None, DefaultHRDY}, c \in {None, DefaultCS},
       r \in {None, DefaultRESET}, init_rtn \in {0, 1} :
        __init__(h, c, r, init_rtn)

(* ------------------------------ __del__ ------------------------------- *)
\* The finalizer runs when the object is collected, whether or not __init__
\* returned normally, and only between calls.
__del__ ==
    /\ obj \in {"live", "failed"}
    /\ pc = "idle"
    /\ obj' = "dead"
    /\ bcm' = [bcm EXCEPT !.inited = FALSE, !.nClose = @ + 1, !.spi = <<>>]
    /\ trace' = << <<"spi_end">>, <<"close">> >>
    /\ top' = [NoTop EXCEPT !.name = "__del__"]
    /\ result' = NoResult
    /\ UNCHANGED <<HRDY, CS, RESET, fsel, pud, gpio, pc, loc, lowpolls, rig>>

(* --------------------------- the ready line --------------------------- *)
DeviceReady ==
    /\ gpio[DefaultHRDY] = LOW
    /\ gpio' = [gpio EXCEPT ![DefaultHRDY] = HIGH]
    /\ UNCHANGED <<obj, bcm, HRDY, CS, RESET, fsel, pud, pc, top, loc, trace,
                   result, lowpolls, rig>>

DeviceBusy ==
    /\ gpio[DefaultHRDY] = HIGH
    /\ gpio' = [gpio EXCEPT ![DefaultHRDY] = LOW]
    /\ UNCHANGED <<obj, bcm, HRDY, CS, RESET, fsel, pud, pc, top, loc, trace,
                   result, lowpolls, rig>>

(* ----------------------- statements of a method ----------------------- *)
Log(e) == trace' = Append(trace, e)

\* The statement is done and control moves to label l of the same method.
Goto(l) == pc' = l /\ UNCHANGED <<loc, result>>

\* The top-level call returns v to the caller.
Finish(v) ==
    /\ pc' = "idle"
    /\ loc' = NoLoc
    /\ result' = [status |-> "ok", value |-> v]

\* An exception leaves every frame up to the caller.
Raise(e) ==
    /\ pc' = "idle"
    /\ loc' = NoLoc
    /\ result' = [status |-> e, value |-> <<>>]

\* self.wait_ready() at label l: the assertion, then one sample of the
\* ready line; a low sample repeats the loop, a high one ends it.
wait_ready(l, cont) ==
    /\ pc = l
    /\ UNCHANGED <<obj, hw, rig, selfpins, gpio, top>>
    /\ IF HRDY = None
         THEN Raise("AssertionError") /\ UNCHANGED <<trace, lowpolls>>
         ELSE /\ Log(<<"gpio_lev", HRDY, gpio[HRDY]>>)
              /\ IF gpio[HRDY] = LOW
                   THEN /\ lowpolls < MaxLowPolls
                        /\ lowpolls' = lowpolls + 1
                        /\ UNCHANGED <<pc, loc, result>>
                   ELSE /\ UNCHANGED lowpolls
                        /\ cont

\* self._write_cs(should_listen) at label l.
_write_cs(l, should_listen, cont) ==
    /\ pc = l
    /\ UNCHANGED <<obj, hw, rig, selfpins, top, lowpolls>>
    /\ IF CS = None
         THEN Raise("AssertionError") /\ UNCHANGED <<trace, gpio>>
         ELSE /\ Log(<<"gpio_write", CS, value_to_write(should_listen)>>)
              /\ gpio' = [gpio EXCEPT ![CS] = value_to_write(should_listen)]
              /\ cont

\* The transfers of a trace since chip-select was last asserted.
SessionTransfers(t) ==
    LET asserts == {j \in 1..Len(t) : t[j] = <<"gpio_write", CS, LOW>>}
        from == IF asserts = {} THEN 0
                ELSE CHOOSE j \in asserts : \A k \in asserts : k <= j
    IN  SelectSeq(SubSeq(t, from + 1, Len(t)),
                  LAMBDA e : e[1] = "spi_transfer")

\* The loopback peripheral on a transfer of v: a session that opens with
\* the data preamble empties its buffer, and every later byte of that
\* session is kept.
MockStore(v) ==
    LET s == SessionTransfers(trace) IN
    IF ~mock.loopback THEN mock
    ELSE IF Len(s) = 1 /\ Byte(s[1][2]) * 256 + Byte(v) = DataPreamble
      THEN [mock EXCEPT !.buf = <<>>]
    ELSE IF Len(s) >= 2 /\ Byte(s[1][2]) * 256 + Byte(s[2][2]) = DataPreamble
      THEN [mock EXCEPT !.buf = Append(@, Byte(v))]
    ELSE mock

\* The bytes the peripheral may shift out on the next payload transfer of
\* a read: any byte, or from the loopback peripheral the kept bytes in
\* order, then zeros.
DeviceBytes ==
    IF ~mock.loopback THEN RxBytes
    ELSE LET n == Len(SessionTransfers(trace)) - 4
         IN  IF n >= 0 /\ n < Len(mock.buf) THEN {mock.buf[n + 1]} ELSE {0}

\* bcm2835_spi_transfer(v) at label l, return value discarded.
spi_transfer(l, v, cont) ==
    /\ pc = l
    /\ UNCHANGED <<obj, hw, other, serialized, selfpins, gpio, top, lowpolls>>
    /\ mock' = MockStore(v)
    /\ Log(<<"spi_transfer", v>>)
    /\ cont

(* ------------------------------- reset -------------------------------- *)
\* Mutant of reset: the pulse ends with the reset line driven low again.
reset_low ==
    \/ /\ pc = "reset:69"
       /\ UNCHANGED <<obj, hw, rig, selfpins, top, lowpolls>>
       /\ IF RESET = None
            THEN Raise("AssertionError") /\ UNCHANGED <<trace, gpio>>
            ELSE /\ Log(<<"gpio_write", RESET, LOW>>)
                 /\ gpio' = [gpio EXCEPT ![RESET] = LOW]
                 /\ Goto("reset:71")
    \/ /\ pc = "reset:71"
       /\ UNCHANGED <<obj, hw, rig, selfpins, gpio, top, lowpolls>>
       /\ Log(<<"sleep", ResetHoldMs>>)
       /\ Goto("reset:72")
    \/ /\ pc = "reset:72"
       /\ UNCHANGED <<obj, hw, rig, selfpins, top, lowpolls>>
       /\ Log(<<"gpio_write", RESET, LOW>>)
       /\ gpio' = [gpio EXCEPT ![RESET] = LOW]
       /\ Finish(<<>>)

\* Mutant of reset: no assertion, the default reset pin when none is
\* assigned.
reset_m ==
    LET pin == IF RESET = None THEN DefaultRESET ELSE RESET IN
    \/ /\ pc = "reset:69"
       /\ UNCHANGED <<obj, hw, rig, selfpins, top, lowpolls>>
       /\ Log(<<"gpio_write", pin, LOW>>)
       /\ gpio' = [gpio EXCEPT ![pin] = LOW]
       /\ Goto("reset:71")
    \/ /\ pc = "reset:71"
       /\ UNCHANGED <<obj, hw, rig, selfpins, gpio, top, lowpolls>>
       /\ Log(<<"sleep", ResetHoldMs>>)
       /\ Goto("reset:72")
    \/ /\ pc = "reset:72"
       /\ UNCHANGED <<obj, hw, rig, selfpins, top, lowpolls>>
       /\ Log(<<"gpio_write", pin, HIGH>>)
       /\ gpio' = [gpio EXCEPT ![pin] = HIGH]
       /\ Finish(<<>>)

\* Mutant of reset: with no reset pin assigned, the default pin is
\* stored in self.RESET and used.
reset_rebind ==
    \/ /\ pc = "reset:69" /\ RESET = None
       /\ RESET' = DefaultRESET
       /\ UNCHANGED <<obj, hw, rig, HRDY, CS, gpio, pc, top, loc, trace,
                      result, lowpolls>>
    \/ RESET # None /\ reset_m

reset ==
    \/ /\ pc = "reset:69"
       /\ UNCHANGED <<obj, hw, rig, selfpins, top, lowpolls>>
       /\ IF RESET = None
            THEN Raise("AssertionError") /\ UNCHANGED <<trace, gpio>>
            ELSE /\ Log(<<"gpio_write", RESET, LOW>>)
                 /\ gpio' = [gpio EXCEPT ![RESET] = LOW]
                 /\ Goto("reset:71")
    \/ /\ pc = "reset:71"
       /\ UNCHANGED <<obj, hw, rig, selfpins, gpio, top, lowpolls>>
       /\ Log(<<"sleep", ResetHoldMs>>)
       /\ Goto("reset:72")
    \/ /\ pc = "reset:72"
       /\ UNCHANGED <<obj, hw, rig, selfpins, top, lowpolls>>
       /\ Log(<<"gpio_write", RESET, HIGH>>)
       /\ gpio' = [gpio EXCEPT ![RESET] = HIGH]
       /\ Finish(<<>>)

(* -------------------------------- read -------------------------------- *)
UShort(v) == v % 65536

\* Bitwise or of two naturals.
RECURSIVE BitOr(_, _)
BitOr(a, b) ==
    IF a = 0 THEN b
    ELSE IF b = 0 THEN a
    ELSE (IF a % 2 = 1 \/ b % 2 = 1 THEN 1 ELSE 0)
         + 2 * BitOr(a \div 2, b \div 2)

\* array.array('H', (0,)*count): a negative count gives the empty tuple.
ZeroArray(count) == [j \in 1..count |-> 0]

\* Mutant of FirstByte: the shift left out.
FirstByte_m(rx) == UShort(rx)

\* crtn[i] = bcm2835_spi_transfer(0x00)<<8
FirstByte(rx) == UShort(rx * 256)

\* Mutant of SecondByte: the second byte assigned, not or-ed in.
SecondByte_m(w, rx) == UShort(rx)

\* crtn[i] |= bcm2835_spi_transfer(0x00)
SecondByte(w, rx) == UShort(BitOr(w, rx))

\* read returns rtn to read_data, which returns it to read_int, which
\* returns element 0.
ReturnFromRead ==
    IF top.name = "read_int"
      THEN IF Len(loc.rtn) >= 1 THEN Finish(<<loc.rtn[1]>>)
                                ELSE Raise("IndexError")
      ELSE Finish(loc.rtn)

read ==
    \/ wait_ready("read:104", Goto("read:106"))
    \/ _write_cs("read:106", TRUE, Goto("read:108"))
    \/ spi_transfer("read:108", Hi(loc.preamble), Goto("read:109"))
    \/ spi_transfer("read:109", loc.preamble, Goto("read:111"))
    \/ wait_ready("read:111", Goto("read:114"))
    \/ spi_transfer("read:114", 0, Goto("read:115"))
    \/ spi_transfer("read:115", 0, Goto("read:117"))
    \/ wait_ready("read:117",
                  Goto(IF 0 < top.count THEN "read:121" ELSE "read:124"))
    \/ /\ pc = "read:121"
       /\ UNCHANGED <<obj, hw, rig, selfpins, gpio, top, lowpolls, result>>
       /\ \E rx \in DeviceBytes :
            /\ Log(<<"spi_transfer", 0, rx>>)
            /\ loc' = [loc EXCEPT !.rtn[loc.i + 1] = FirstByte(rx)]
       /\ pc' = "read:122"
    \/ /\ pc = "read:122"
       /\ UNCHANGED <<obj, hw, rig, selfpins, gpio, top, lowpolls, result>>
       /\ \E rx \in DeviceBytes :
            /\ Log(<<"spi_transfer", 0, rx>>)
            /\ loc' = [loc EXCEPT !.rtn[loc.i + 1] = SecondByte(@, rx),
                                  !.i = @ + 1]
       /\ pc' = IF loc.i + 1 < top.count THEN "read:121" ELSE "read:124"
    \/ _write_cs("read:124", FALSE, ReturnFromRead)

(* ------------------------------- write -------------------------------- *)
\* array.array('H', ary) accepts the integers 0..65535 only.
FitsH(ary) == \A j \in DOMAIN ary : ary[j] \in 0..65535

\* Mutant of EnterWrite: the array is not built before the session.
EnterWrite_m(preamble, ary, k) ==
    /\ loc' = [NoLoc EXCEPT !.preamble = preamble, !.ary = ary, !.k = k]
    /\ pc' = "write:136"
    /\ result' = NoResult

\* Entry of write(preamble, ary), lines 133-134, with write_cmd having taken
\* k of its arguments.
EnterWrite(preamble, ary, k) ==
    IF FitsH(ary)
      THEN /\ loc' = [NoLoc EXCEPT !.preamble = preamble, !.ary = ary, !.k = k]
           /\ pc' = "write:136"
           /\ result' = NoResult
      ELSE Raise("OverflowError")

\* Mutant of ReturnFromWrite: write_cmd sends all its arguments in one
\* write_data call.
ReturnFromWrite_m ==
    IF top.name = "write_cmd" /\ loc.k < Len(top.args)
      THEN EnterWrite(DataPreamble, top.args, Len(top.args))
      ELSE Finish(<<>>)

\* write returns None: to the caller, or to write_cmd, whose loop then
\* sends the next argument through write_data([arg]).
ReturnFromWrite ==
    IF top.name = "write_cmd" /\ loc.k < Len(top.args)
      THEN EnterWrite(DataPreamble, <<top.args[loc.k + 1]>>, loc.k + 1)
      ELSE Finish(<<>>)

write ==
    \/ wait_ready("write:136", Goto("write:138"))
    \/ _write_cs("write:138", TRUE, Goto("write:140"))
    \/ spi_transfer("write:140", Hi(loc.preamble), Goto("write:141"))
    \/ spi_transfer("write:141", loc.preamble, Goto("write:143"))
    \/ wait_ready("write:143",
                  Goto(IF 0 < Len(loc.ary) THEN "write:147" ELSE "write:150"))
    \/ spi_transfer("write:147", Hi(loc.ary[loc.i + 1]), Goto("write:148"))
    \/ spi_transfer("write:148", loc.ary[loc.i + 1],
                    /\ loc' = [loc EXCEPT !.i = @ + 1]
                    /\ pc' = IF loc.i + 1 < Len(loc.ary) THEN "write:147"
                                                         ELSE "write:150"
                    /\ UNCHANGED result)
    \/ _write_cs("write:150", FALSE, ReturnFromWrite)

(* ---------------------------- write_pixels ---------------------------- *)
\* Passing pixbuf as the char* argument of bcm2835_spi_transfern: only a
\* bytes or bytearray object converts; anything else is a TypeError.
AsCharPtr(pixbuf) == pixbuf.kind \in {"bytes", "bytearray"}

write_pixels ==
    \/ wait_ready("write_pixels:161", Goto("write_pixels:163"))
    \/ _write_cs("write_pixels:163", TRUE, Goto("write_pixels:165"))
    \/ spi_transfer("write_pixels:165", Hi(DataPreamble),
                    Goto("write_pixels:166"))
    \/ spi_transfer("write_pixels:166", DataPreamble, Goto("write_pixels:168"))
    \/ wait_ready("write_pixels:168", Goto("write_pixels:170"))
    \/ /\ pc = "write_pixels:170"
       /\ UNCHANGED <<obj, hw, rig, selfpins, gpio, top, lowpolls>>
       /\ IF AsCharPtr(top.pixbuf)
            THEN /\ Log(<<"spi_transfern", top.pixbuf.data,
                          Len(top.pixbuf.data)>>)
                 /\ Goto("write_pixels:172")
            ELSE Raise("TypeError") /\ UNCHANGED trace
    \/ _write_cs("write_pixels:172", FALSE, Finish(<<>>))

(* ----------------------------- wait_ready ----------------------------- *)
\* wait_ready() called from outside the class.
wait_ready_call == wait_ready("wait_ready:88", Finish(<<>>))

(* ------------------------------ the caller ---------------------------- *)
\* The pixel buffers a caller passes: packed bytes, or the array of 16-bit
\* integers the docstring of write_pixels asks for.
PixBufs ==
    {[kind |-> "bytes", data |-> d] : d \in SeqsUpTo(RxBytes, MaxPix)}
    \cup {[kind |-> "array", data |-> d] : d \in SeqsUpTo(GoodWords, MaxPix)}

\* A method call begins: the object is alive and no call is running.
Begin(t) ==
    /\ obj = "live"
    /\ pc = "idle"
    /\ top' = t
    /\ trace' = <<>>
    /\ lowpolls' = 0
    /\ UNCHANGED <<obj, hw, rig, selfpins, gpio>>

Enter(l, newloc) == pc' = l /\ loc' = newloc /\ result' = NoResult

\* reset() is called.
reset_enter ==
    Begin([NoTop EXCEPT !.name = "reset"]) /\ Enter("reset:69", NoLoc)

\* wait_ready() is called from outside the class.
wait_ready_enter ==
    Begin([NoTop EXCEPT !.name = "wait_ready"]) /\ Enter("wait_ready:88", NoLoc)

\* The counts a caller passes to read: integers, a negative one among
\* them, and an object that is not an integer (None).
ReadCounts ==
    {<<n, "int">> : n \in (0 - 1)..MaxCount} \cup {<<0, "NoneType">>}

\* (0,)*count at line 101 is defined for an integer count only (a
\* negative one gives the empty tuple); any other object is a TypeError.
Multipliable(kind) == kind = "int"

\* Entry of read(preamble, count), line 101.
EnterRead(preamble, n, kind) ==
    IF Multipliable(kind)
      THEN Enter("read:104",
                 [NoLoc EXCEPT !.preamble = preamble, !.rtn = ZeroArray(n)])
      ELSE Raise("TypeError")

\* read(p, n) is called.
read_enter(p, n, kind) ==
    /\ Begin([NoTop EXCEPT !.name = "read", !.preamble = p, !.count = n,
                           !.countkind = kind])
    /\ EnterRead(p, n, kind)

\* read_data(n) is self.read(0x1000, n).
read_data(n, kind) ==
    /\ Begin([NoTop EXCEPT !.name = "read_data", !.preamble = ReadPreamble,
                           !.count = n, !.countkind = kind])
    /\ EnterRead(ReadPreamble, n, kind)

\* Mutant of read_int: two words asked for, the first one returned.
read_int_m ==
    /\ Begin([NoTop EXCEPT !.name = "read_int", !.preamble = ReadPreamble,
                           !.count = 2])
    /\ Enter("read:104",
             [NoLoc EXCEPT !.preamble = ReadPreamble, !.rtn = ZeroArray(2)])

\* read_int() is self.read_data(1)[0].
read_int ==
    /\ Begin([NoTop EXCEPT !.name = "read_int", !.preamble = ReadPreamble,
                           !.count = 1])
    /\ Enter("read:104",
             [NoLoc EXCEPT !.preamble = ReadPreamble, !.rtn = ZeroArray(1)])

\* write(p, a) is called.
write_enter(p, a) ==
    /\ Begin([NoTop EXCEPT !.name = "write", !.preamble = p, !.ary = a])
    /\ EnterWrite(p, a, 0)

\* write_data(a) is self.write(0x0000, a).
write_data(a) ==
    /\ Begin([NoTop EXCEPT !.name = "write_data", !.preamble = DataPreamble,
                           !.ary = a])
    /\ EnterWrite(DataPreamble, a, 0)

\* write_cmd(c, *a) starts with self.write(0x6000, [c]).
write_cmd(c, a) ==
    /\ Begin([NoTop EXCEPT !.name = "write_cmd", !.cmd = c, !.args = a])
    /\ EnterWrite(CmdPreamble, <<c>>, 0)

\* write_pixels(b) is called.
write_pixels_enter(b) ==
    /\ Begin([NoTop EXCEPT !.name = "write_pixels", !.pixbuf = b])
    /\ Enter("write_pixels:161", NoLoc)

Call ==
    \/ reset_enter
    \/ wait_ready_enter
    \/ \E p \in Preambles, n \in ReadCounts : read_enter(p, n[1], n[2])
    \/ \E n \in ReadCounts : read_data(n[1], n[2])
    \/ read_int
    \/ \E p \in Preambles, a \in WriteArys : write_enter(p, a)
    \/ \E a \in WriteArys : write_data(a)
    \/ \E c \in Cmds, a \in SeqsUpTo(GoodWords, MaxArgs) : write_cmd(c, a)
    \/ \E b \in PixBufs : write_pixels_enter(b)

Next ==
    \/ Open
    \/ __del__
    \/ Call
    \/ reset
    \/ wait_ready_call
    \/ read
    \/ write
    \/ write_pixels
    \/ DeviceReady
    \/ DeviceBusy

Spec == Init /\ [][Next]_vars

(* ------------------------ the round-trip scenario --------------------- *)
\* The object opened on all three default pins, in front of the loopback
\* peripheral; the caller sends data and reads it back.
EchoInit == Start(TRUE, TRUE)

EchoOpen == __init__(DefaultHRDY, DefaultCS, DefaultRESET, 1)

EchoNext ==
    \/ EchoOpen
    \/ \E a \in WriteArys : write_data(a)
    \/ \E n \in 0..MaxCount : read_data(n, "int")
    \/ read
    \/ write
    \/ DeviceReady
    \/ DeviceBusy

EchoSpec == EchoInit /\ [][EchoNext]_vars

(* ------------------------- two callers, one object -------------------- *)
\* The methods take no lock.  Two callers share the object: one runs, the
\* other is held with its call where it stopped.  The callers swap
\* between any two bcm2835 calls, or, when they are serialized, only
\* while no call is running.
Switch ==
    /\ obj = "live"
    /\ serialized => pc = "idle"
    /\ other' = [pc |-> pc, top |-> top, loc |-> loc, trace |-> trace,
                 result |-> result, lowpolls |-> lowpolls]
    /\ pc' = other.pc
    /\ top' = other.top
    /\ loc' = other.loc
    /\ trace' = other.trace
    /\ result' = other.result
    /\ lowpolls' = other.lowpolls
    /\ UNCHANGED <<obj, hw, selfpins, gpio, mock, serialized>>

ConcInit == \E serial \in BOOLEAN : Start(FALSE, serial)

ConcOpen == __init__(DefaultHRDY, DefaultCS, DefaultRESET, 1)

ConcNext ==
    \/ ConcOpen
    \/ Switch
    \/ read_enter(ReadPreamble, 1, "int")
    \/ write_enter(DataPreamble, <<4660>>)
    \/ write_pixels_enter([kind |-> "bytes", data |-> <<18>>])
    \/ read
    \/ write
    \/ write_pixels
    \/ DeviceReady
    \/ DeviceBusy

ConcSpec == ConcInit /\ [][ConcNext]_vars

(* ====================================================================== *)
(*                              Properties                                *)
(* ====================================================================== *)
HighByte(w) == (w \div 256) % 256
LowByte(w) == w % 256

IsPrefix(s, t) == Len(s) <= Len(t) /\ SubSeq(t, 1, Len(s)) = s

\* What a bcm2835 call looks like on the lines: a ready sample that reads
\* high ends a wait, a write to the chip-select pin asserts (low) or
\* deasserts (high) it, a transfer moves one byte.
Observe(e) ==
    CASE e[1] = "gpio_lev" -> <<"wait">>
      [] e[1] = "gpio_write" /\ e[2] = CS ->
            IF e[3] = LOW THEN <<"assert">> ELSE <<"deassert">>
      [] e[1] = "spi_transfer" -> <<"byte", Byte(e[2])>>
      [] OTHER -> e

\* The events of a trace with the low samples of the waits left out.
Shape(t) ==
    LET u == SelectSeq(t, LAMBDA e : ~(e[1] = "gpio_lev" /\ e[3] = LOW))
    IN  [j \in 1..Len(u) |-> Observe(u[j])]

Transfers(t) == SelectSeq(t, LAMBDA e : e[1] = "spi_transfer")
LowSamples(t) == SelectSeq(t, LAMBDA e : e[1] = "gpio_lev" /\ e[3] = LOW)

RECURSIVE Repeat(_, _)
Repeat(s, n) == IF n <= 0 THEN <<>> ELSE s \o Repeat(s, n - 1)

RECURSIVE WordBytes(_)
WordBytes(ws) ==
    IF ws = <<>> THEN <<>>
    ELSE << <<"byte", HighByte(Head(ws))>>, <<"byte", LowByte(Head(ws))>> >>
         \o WordBytes(Tail(ws))

ReadShape(p, n) ==
    << <<"wait">>, <<"assert">>, <<"byte", HighByte(p)>>,
       <<"byte", LowByte(p)>>, <<"wait">>, <<"byte", 0>>, <<"byte", 0>>,
       <<"wait">> >>
    \o Repeat(<< <<"byte", 0>> >>, 2 * n)
    \o << <<"deassert">> >>

WriteShape(p, ws) ==
    << <<"wait">>, <<"assert">>, <<"byte", HighByte(p)>>,
       <<"byte", LowByte(p)>>, <<"wait">> >>
    \o WordBytes(ws)
    \o << <<"deassert">> >>

RECURSIVE DataShapes(_)
DataShapes(as) ==
    IF as = <<>> THEN <<>>
    ELSE WriteShape(DataPreamble, <<Head(as)>>) \o DataShapes(Tail(as))

Returned == pc = "idle" /\ result.status = "ok"
InRead == top.name \in {"read", "read_data", "read_int"}
InWrite == top.name \in {"write", "write_data"}

\* C2: read(preamble, count) makes its events in the order wait, assert,
\* preamble high byte, preamble low byte, wait, two zero bytes, wait,
\* 2*count zero bytes, deassert: at every moment of the call the events
\* so far are a prefix of that sequence, and on return they are all of it
\* (three waits whatever count is, none between payload words).
C2_ReadOrder ==
    InRead =>
        /\ IsPrefix(Shape(trace), ReadShape(top.preamble, top.count))
        /\ Returned => Shape(trace) = ReadShape(top.preamble, top.count)

C2_Witness ==
    /\ top.name = "read" /\ Returned
    /\ top.count = 2 /\ LowByte(top.preamble) # 0
    /\ LowSamples(trace) # <<>>

\* C3: read(preamble, count) returns after 4 + 2*count byte transfers a
\* sequence of length count whose i-th element is the byte received by
\* transfer 4 + 2i - 1 shifted left by 8, or-ed with the byte received by
\* transfer 4 + 2i; the four transfers before the payload are there for
\* count = 0 too.
C3_ReadResult ==
    (top.name \in {"read", "read_data"} /\ Returned /\ top.count >= 0) =>
        LET x == Transfers(trace) IN
        /\ Len(x) = 4 + 2 * top.count
        /\ Len(result.value) = top.count
        /\ \A j \in 1..4 : Len(x[j]) = 2
        /\ \A j \in 1..top.count :
              result.value[j] = x[4 + 2 * j - 1][3] * 256 + x[4 + 2 * j][3]

C3_Witness ==
    /\ top.name = "read" /\ Returned /\ top.count = 2
    /\ result.value[1] # result.value[2]
    /\ result.value[1] % 256 # result.value[1] \div 256

\* C4: write(preamble, words) makes its events in the order wait, assert,
\* preamble high byte, preamble low byte, wait, then high byte and low
\* byte of each word in input order, deassert: 2 + 2*len(words) bytes,
\* two waits, none between words, one assert and one deassert around it.
C4_WriteOrder ==
    InWrite =>
        /\ IsPrefix(Shape(trace), WriteShape(top.preamble, top.ary))
        /\ Returned =>
              /\ Shape(trace) = WriteShape(top.preamble, top.ary)
              /\ Len(Transfers(trace)) = 2 + 2 * Len(top.ary)

C4_Witness ==
    /\ top.name = "write" /\ Returned
    /\ Len(top.ary) = 2 /\ top.ary[1] # top.ary[2]
    /\ LowByte(top.preamble) # 0

\* C5: write_cmd(code, a1, ..., ak) makes the events of write(0x6000,
\* [code]) followed by those of write(0x0000, [a1]), ..., write(0x0000,
\* [ak]): k + 1 sessions, one word per data session.
C5_CommandSessions ==
    top.name = "write_cmd" =>
        LET want == WriteShape(CmdPreamble, <<top.cmd>>) \o DataShapes(top.args)
        IN  /\ IsPrefix(Shape(trace), want)
            /\ Returned =>
                  /\ Shape(trace) = want
                  /\ Len(SelectSeq(Shape(trace), LAMBDA e : e = <<"assert">>))
                        = Len(top.args) + 1

C5_Witness ==
    /\ top.name = "write_cmd" /\ Returned
    /\ Len(top.args) = 2 /\ top.args[1] # top.args[2]

CsEvents(sh) == SelectSeq(sh, LAMBDA e : e \in {<<"assert">>, <<"deassert">>})
IsMove(e) == e[1] \in {"byte", "spi_transfern"}

\* The chip-select events before position j of a shape end in an assert.
AssertedAt(sh, j) ==
    LET c == CsEvents(SubSeq(sh, 1, j - 1))
    IN  c # <<>> /\ c[Len(c)] = <<"assert">>

\* C1: on a transport with its lines assigned, a read, write or
\* write_pixels call given 16-bit words starts with chip-select
\* deasserted, moves every byte (single or bulk) while chip-select is
\* asserted, and has made exactly one assert followed by exactly one
\* deassert when it ends, the deassert being its last event and coming
\* right after the last byte moved; so asserts and deasserts alternate.
C1_Framing ==
    (obj = "live" /\ HRDY # None /\ FitsH(top.ary)
       /\ top.name \in {"read", "write", "write_pixels"}) =>
        LET sh == Shape(trace) IN
        /\ CsEvents(sh) = <<>> => gpio[CS] = HIGH
        /\ \A j \in 1..Len(sh) : IsMove(sh[j]) => AssertedAt(sh, j)
        /\ IsPrefix(CsEvents(sh), << <<"assert">>, <<"deassert">> >>)
        /\ pc = "idle" =>
              /\ CsEvents(sh) = << <<"assert">>, <<"deassert">> >>
              /\ sh[Len(sh)] = <<"deassert">>
              /\ (top.count > 0 \/ top.ary # <<>> \/ top.name = "write_pixels")
                    => IsMove(sh[Len(sh) - 1])

RECURSIVE PackBE(_)
PackBE(ws) ==
    IF ws = <<>> THEN <<>>
    ELSE <<HighByte(Head(ws)), LowByte(Head(ws))>> \o PackBE(Tail(ws))

\* C6: write_pixels(buffer) of 16-bit words, of any length, makes one
\* session: wait, assert, the two bytes of preamble 0x0000, wait, one
\* bulk transfer, deassert; the bulk transfer is handed the big-endian
\* packing of the words, two bytes per word.
C6_PixelSession ==
    (top.name = "write_pixels" /\ top.pixbuf.kind = "array"
       /\ HRDY # None /\ pc = "idle") =>
        Shape(trace) =
            << <<"wait">>, <<"assert">>, <<"byte", 0>>, <<"byte", 0>>,
               <<"wait">>,
               <<"spi_transfern", PackBE(top.pixbuf.data),
                 2 * Len(top.pixbuf.data)>>,
               <<"deassert">> >>

\* C7: reset() with no reset line, and wait_ready() with no ready line,
\* end at once with an assertion error (the configuration error of the
\* transport) and without a bcm2835 call: no pin is written or read, no
\* byte moves, and levels and pin setup are as before the call.
C7_UnassignedLineFails ==
    [][((pc = "reset:69" /\ RESET = None)
          \/ (pc = "wait_ready:88" /\ HRDY = None)) /\ pc' # pc =>
            /\ pc' = "idle"
            /\ result'.status = "AssertionError"
            /\ trace' = <<>>
            /\ UNCHANGED <<gpio, fsel, pud>>]_vars

C7_Witness ==
    /\ pc = "idle" /\ result.status = "AssertionError"
    /\ \/ top.name = "reset" /\ RESET = None /\ HRDY # None
       \/ top.name = "wait_ready" /\ HRDY = None /\ RESET # None

\* C8: when bcm2835_init does not return 1, SPI(...) raises RuntimeError
\* (the initialization error) having made no other bcm2835 call: no SPI
\* setup, no pin direction or pull, no pin write; the object is never
\* handed to the caller.
C8_FailedOpen ==
    [][(obj = "none" /\ obj' # "none" /\ bcm'.nInit = bcm.nInit) =>
            /\ obj' = "failed"
            /\ result'.status = "RuntimeError"
            /\ trace' = << <<"init", trace'[1][2]>> >> /\ trace'[1][2] # 1
            /\ UNCHANGED <<gpio, fsel, pud, bcm>>]_vars

C8_Witness ==
    /\ obj = "failed" /\ result.status = "RuntimeError"
    /\ top.name = "__init__" /\ bcm.nInit = 0

\* C9: the peripheral is never released when it was not acquired, and
\* once the object is gone it has been released exactly once for each
\* successful acquisition.
C9_ReleaseOnce ==
    /\ bcm.nClose <= bcm.nInit
    /\ obj = "dead" => bcm.nClose = bcm.nInit

WaitLabels == {"wait_ready:88", "read:104", "read:111", "read:117",
               "write:136", "write:143", "write_pixels:161",
               "write_pixels:168"}

\* C10: a wait for ready is left only by a sample that read high; while
\* the ready line is low the caller stays at the wait and neither writes
\* chip-select nor moves a byte; and a read, write or write_pixels call
\* that ends leaves chip-select deasserted.
C10_WaitAndRelease ==
    [][/\ (pc \in WaitLabels /\ HRDY # None /\ pc' # pc) =>
              /\ gpio[HRDY] = HIGH
              /\ trace' = Append(trace, <<"gpio_lev", HRDY, HIGH>>)
       /\ (pc \in WaitLabels /\ HRDY # None /\ gpio[HRDY] = LOW) =>
              /\ pc' = pc
              /\ gpio'[CS] = gpio[CS]
              /\ Transfers(trace') = Transfers(trace)
       /\ (pc # "idle" /\ pc' = "idle"
             /\ top.name \in {"read", "write", "write_pixels"}) =>
              gpio'[CS] = HIGH]_vars

(* ------------------ termination of the busy wait --------------------- *)
\* The caller keeps executing the statement it is at.
(* ------------------------------- C11 ---------------------------------- *)
\* The payload bytes of a sequence of words: high byte, low byte of each.
RECURSIVE PayloadBytes(_)
PayloadBytes(ws) ==
    IF ws = <<>> THEN <<>>
    ELSE <<HighByte(Head(ws)), LowByte(Head(ws))>> \o PayloadBytes(Tail(ws))

\* C11: round trip.  When write_data(ws) has returned, the peripheral
\* holds exactly the payload bytes of ws; and when read_data(n) has
\* returned after the peripheral echoed the 2*n payload bytes of some ws
\* sent before, in order, the words returned are ws unchanged.
C11_RoundTrip ==
    /\ (top.name = "write_data" /\ Returned) =>
          mock.buf = PayloadBytes(top.ary)
    /\ (top.name = "read_data" /\ Returned /\ Len(mock.buf) = 2 * top.count) =>
          \E ws \in SeqsUpTo(GoodWords, MaxWords) :
              /\ mock.buf = PayloadBytes(ws)
              /\ result.value = ws

C11_Witness ==
    /\ mock.loopback
    /\ top.name = "read_data" /\ Returned
    /\ Len(mock.buf) = 4
    /\ result.value = <<4660, 43981>>

(* ------------------------------- C12 ---------------------------------- *)
\* The calls of a whole reset(): the reset line low, the hold, the reset
\* line high.
ResetPulse ==
    << <<"gpio_write", RESET, LOW>>, <<"sleep", ResetHoldMs>>,
       <<"gpio_write", RESET, HIGH>> >>

\* C12: with the reset line assigned, reset() writes the reset line low,
\* holds, then writes it high: its calls so far are always a prefix of
\* exactly that, and all of it on return, with the reset line high; so it
\* writes no other line, samples nothing and transfers nothing.
C12_ResetPulse ==
    (top.name = "reset" /\ RESET # None) =>
        /\ IsPrefix(trace, ResetPulse)
        /\ pc = "idle" =>
              /\ result.status = "ok"
              /\ trace = ResetPulse
              /\ gpio[RESET] = HIGH

C12_Witness ==
    /\ top.name = "reset" /\ RESET # None /\ Returned
    /\ Len(trace) = 3 /\ gpio[RESET] = HIGH

(* ------------------------------- C13 ---------------------------------- *)
\* C13: whatever pins are assigned, SPI(...) on an available peripheral
\* returns an object, has set the direction of exactly the assigned pins
\* (chip-select and reset outputs, ready an input pulled down) and has
\* left an assigned chip-select high.
C13_OpenAnyAssignment ==
    [][(obj = "none" /\ bcm'.nInit = bcm.nInit + 1) =>
            /\ obj' = "live"
            /\ result'.status = "ok"
            /\ \A p \in GpioPins :
                  /\ fsel'[p] = IF p \in {CS', RESET'} THEN "OUTP"
                                ELSE IF p = HRDY' THEN "INPT" ELSE fsel[p]
                  /\ pud'[p] = IF p = HRDY' THEN "PUD_DOWN" ELSE pud[p]
            /\ CS' # None => gpio'[CS'] = HIGH]_vars

(* ------------------------------- C14 ---------------------------------- *)
\* C14: read_int() is one read session with preamble 0x1000 and count 1:
\* its events are at every moment a prefix of that session and all of it
\* on return, the value returned is the one word received (first byte
\* high), and the index error of taking element 0 of an empty array never
\* happens.
C14_ReadInt ==
    top.name = "read_int" =>
        /\ IsPrefix(Shape(trace), ReadShape(ReadPreamble, 1))
        /\ result.status # "IndexError"
        /\ Returned =>
              LET x == Transfers(trace) IN
              /\ Shape(trace) = ReadShape(ReadPreamble, 1)
              /\ Len(x) = 6
              /\ result.value = <<x[5][3] * 256 + x[6][3]>>

C14_Witness ==
    /\ top.name = "read_int" /\ Returned
    /\ result.value = <<4847>>

(* ------------------------------- C15 ---------------------------------- *)
\* C15: on an opened object, whenever no call is running chip-select is
\* high, whether the last call returned or raised.
C15_IdleDeasserted ==
    (obj = "live" /\ pc = "idle") => gpio[CS] = HIGH

(* ------------------------------- C16 ---------------------------------- *)
\* The arguments array.array('H', ary) or (0,)*count reject.
InvalidInput(t) ==
    \/ t.name \in {"write", "write_data"}
         /\ \E j \in DOMAIN t.ary : t.ary[j] \notin 0..65535
    \/ t.name \in {"read", "read_data"} /\ t.countkind # "int"

\* C16: a write with a word outside 0..65535 and a read whose count is
\* not an integer end at once with an error, having made no bcm2835 call
\* and left every line as it was; and a read with a negative count makes
\* the events of a read of count 0 and returns the empty array.
C16_ValidationFirst ==
    [][/\ (/\ obj = "live" /\ pc = "idle" /\ obj' = "live"
            /\ <<top, pc, result, trace>>' # <<top, pc, result, trace>>
            /\ InvalidInput(top')) =>
              /\ pc' = "idle"
              /\ result'.status \in {"OverflowError", "TypeError"}
              /\ trace' = <<>>
              /\ UNCHANGED <<gpio, fsel, pud>>
       /\ (top'.name \in {"read", "read_data"} /\ top'.count < 0) =>
              /\ IsPrefix(Shape(trace'), ReadShape(top'.preamble, 0))
              /\ (pc' = "idle" /\ result'.status = "ok") =>
                    /\ Shape(trace') = ReadShape(top'.preamble, 0)
                    /\ result'.value = <<>>]_vars

C16_Witness ==
    /\ obj = "live" /\ pc = "idle" /\ trace = <<>>
    /\ top.name = "read" /\ top.countkind # "int"
    /\ result.status = "TypeError"

(* ------------------------------- C17 ---------------------------------- *)
\* C17: every value read, write and write_pixels hand to
\* bcm2835_spi_transfer lies in 0..255.
C17_ByteArguments ==
    \A j \in 1..Len(trace) :
        trace[j][1] = "spi_transfer" => trace[j][2] \in 0..255

(* ------------------------------- C18 ---------------------------------- *)
\* Where a call is between its chip-select assert and its deassert, and
\* where it is moving its payload.
SessionLabels ==
    {"read:108", "read:109", "read:111", "read:114", "read:115", "read:117",
     "read:121", "read:122", "read:124",
     "write:140", "write:141", "write:143", "write:147", "write:148",
     "write:150",
     "write_pixels:165", "write_pixels:166", "write_pixels:168",
     "write_pixels:170", "write_pixels:172"}

PayloadLabels ==
    {"read:121", "read:122", "write:147", "write:148", "write_pixels:170"}

\* One caller's bytes move inside the other's session: both calls are
\* between assert and deassert and the running one has just transferred.
ForeignBytes ==
    /\ pc \in SessionLabels /\ other.pc \in SessionLabels
    /\ trace # <<>> /\ trace[Len(trace)][1] = "spi_transfer"

\* Chip-select is high while a call is in its payload.
DeassertedUnderPayload ==
    /\ gpio[CS] = HIGH
    /\ pc \in PayloadLabels \/ other.pc \in PayloadLabels

\* C18: while the two callers are serialized, no byte of one moves
\* inside the session of the other and chip-select is never high under a
\* payload.
C18_SerializedIsSafe ==
    (obj = "live" /\ serialized) =>
        ~ForeignBytes /\ ~DeassertedUnderPayload

\* Without serialization: the running caller has just deasserted
\* chip-select while the other is still in its payload, and the other's
\* session holds bytes of both.
C18_Witness ==
    /\ obj = "live" /\ ~serialized
    /\ other.pc \in PayloadLabels /\ gpio[CS] = HIGH
    /\ pc = "idle" /\ trace # <<>>
    /\ trace[Len(trace)] = <<"gpio_write", CS, HIGH>>
    /\ Transfers(trace) # <<>>

(* ------------------------------- C19 ---------------------------------- *)
\* C19: once SPI(...) has stored them, no step changes the pins of the
\* ready, chip-select and reset lines, whichever method takes it and
\* whether the call returns or raises.
C19_PinsFixed ==
    [][obj # "none" => UNCHANGED <<HRDY, CS, RESET>>]_vars

C19_Witness ==
    /\ obj = "live" /\ pc = "idle"
    /\ top.name = "write_cmd" /\ Returned /\ Len(top.args) = 2
    /\ <<HRDY, CS, RESET>> = <<DefaultHRDY, DefaultCS, None>>

Running == reset \/ wait_ready_call \/ read \/ write \/ write_pixels

LiveSpec == Init /\ [][Next]_vars /\ WF_vars(Running)

\* If the ready line ends up high, every call that began ends.
Terminates ==
    <>[](gpio[DefaultHRDY] = HIGH) => ((pc # "idle") ~> (pc = "idle"))

\* If the ready line stays low from some wait on, the caller stays at it.
StaysWaiting ==
    []((pc \in WaitLabels /\ HRDY # None /\ [](gpio[DefaultHRDY] = LOW))
          => [](pc \in WaitLabels))

====
